---- MODULE Spec2Model ----
(***************************************************************************)
(* The concurrent upload pipeline of drive-uploader-rust (src/main.rs):    *)
(* main obtains a token, creates the remote root folder, spawns the worker *)
(* pool, walks the local tree (creating remote folders synchronously and   *)
(* sending one job per file), drops the sender, sleeps and returns.        *)
(* Workers loop: lock the receiver, recv, unlock, upload_file.             *)
(***************************************************************************)
EXTENDS Integers, Sequences, FiniteSets, TLC

\* const MAX_FILE_SIZE: u64 = 1_000_000_000
MAX_FILE_SIZE == 1000000000

\* Pool size used by the model.  The source sets MAX_THREADS = 8; the worker
\* loop is the same for every pool size, and the model runs it with this many.
MAX_THREADS == 2

\* Number of regular files that follow the subdirectory in the root listing.
ExtraFiles == 0

Main == 0
Workers == 1..MAX_THREADS
Threads == {Main} \cup Workers

(***************************************************************************)
(* The local tree handed to the walker (dirs::document_dir()).             *)
(*   Root/ FirstFile, SubDir/ { EmptyDir/, InnerFile }, TrailingFiles...   *)
(* read_dir yields the entries of a directory in the order of Entries.     *)
(***************************************************************************)
Root == 0
FirstFile == 1
SubDir == 2
EmptyDir == 3
InnerFile == 4
TrailingFiles == {InnerFile + i : i \in 1..ExtraFiles}
Nodes == Root..(InnerFile + ExtraFiles)
Dirs == {Root, SubDir, EmptyDir}
Files == Nodes \ Dirs

is_dir(n) == n \in Dirs

Entries(d) ==
    IF d = Root THEN <<FirstFile, SubDir>> \o [i \in 1..ExtraFiles |-> InnerFile + i]
    ELSE IF d = SubDir THEN <<EmptyDir, InnerFile>>
    ELSE <<>>

ParentDir(n) == CHOOSE d \in Dirs : \E i \in 1..Len(Entries(d)) : Entries(d)[i] = n

\* Positions of the entries that read_dir yields after entry n in its directory.
LaterSiblings(n) ==
    LET es == Entries(ParentDir(n))
        k  == CHOOSE i \in 1..Len(es) : es[i] = n
    IN  {es[j] : j \in (k + 1)..Len(es)}

\* fs::metadata(&path).len() as the file system may report it.
Lengths == {MAX_FILE_SIZE, MAX_FILE_SIZE + 1}

\* Option<&str> parent_id: None
None == 0

VARIABLES
    mpc,        \* main's position
    mainErr,    \* the error main returned ("" while none)
    token,      \* Arc<Mutex<String>>: the access token in the store (0: not built yet)
    issued,     \* number of access tokens the token endpoint has issued
    call,       \* per thread: its create_drive_folder / upload_file call in progress
    rootId,     \* drive_root_id (None until created)
    nextId,     \* number of folder ids the Drive endpoint has returned
    stack,      \* call stack of upload_folder_recursive: frames [dir, idx, id, open]
    queue,      \* the mpsc channel's buffered jobs
    closed,     \* the Sender tx has been dropped
    rxLock,     \* holder of the Mutex around the Receiver (0: free)
    tokLock,    \* holder of the Mutex around the token (Unlocked: free)
    wpc,        \* per worker: position in the worker loop
    job,        \* per worker: the job it is uploading
    \* history of the run, read by the properties only
    created,    \* folders whose id create_drive_folder returned: [id, node, parent]
    creates,    \* per directory: number of create_drive_folder calls issued for it
    createPar,  \* per directory: the parent_id passed to its create_drive_folder call
    failedDirs, \* subdirectories whose create_drive_folder returned Err
    visited,    \* entries the walker's for loop has reached
    meta,       \* <<file, len>> for each file whose metadata the walker read
    enq,        \* every job sent on tx, in order
    deq,        \* every job a recv returned, in order
    attempts,   \* per file: number of upload_file calls
    burned,     \* snapshots that got 401 and whose refresh has been stored
    descended,  \* subdirectories the walker has made its recursive call for
    ioFailed    \* directories whose read_dir, or the read of an entry, failed

hist == <<created, creates, createPar, failedDirs, visited, meta, enq, deq,
          attempts, burned>>
hist2 == <<descended, ioFailed>>
vars == <<mpc, mainErr, token, issued, call, rootId, nextId, stack,
          queue, closed, rxLock, tokLock, wpc, job, hist, hist2>>

\* type Job = (PathBuf, String)
Job(path, parent_id) == [path |-> path, parent |-> parent_id]
NoJob == Job(Root, None)

\* The locals of an authenticated call: st its position ("send": the request
\* is in flight, "refresh": get_token is in flight, "store": get_token has
\* returned Ok), tk the snapshot cloned from the store, new the token get_token
\* returned, xch the number of get_token calls it has made, resp the response
\* that made it call get_token.  In "cloned" (the snapshot is taken) and in
\* "stored" (the new token is written) the call holds the token mutex.
NoCall == [st |-> "idle", tk |-> 0, new |-> 0, xch |-> 0, resp |-> ""]

\* access_token.lock().unwrap().clone(): the snapshot is taken under the lock
Cloned(snapshot) == [st |-> "cloned", tk |-> snapshot, new |-> 0, xch |-> 0, resp |-> ""]

\* let tk = { access_token.lock().unwrap().clone() }; then the request is sent
Sending(snapshot) == [st |-> "send", tk |-> snapshot, new |-> 0, xch |-> 0, resp |-> ""]

\* The token mutex with no guard alive.
Unlocked == -1

\* A guard that lives on after the statement that took the token mutex.
TokenGuardKept(t) == t

\* The token mutex after the statement that locked it: the temporary guard is
\* dropped at the end of the block (line 140, 253) or statement (150, 265).
TokenGuardAfter(t) == Unlocked

\* A refresh on every response that is not a success.
NeedsRefreshOnAnyError(r) == r # "ok"

\* resp.status() == StatusCode::UNAUTHORIZED
NeedsRefresh(r) == r = "unauthorized"

Init ==
    /\ mpc = "start"
    /\ mainErr = ""
    /\ token = 0
    /\ issued = 0
    /\ call = [t \in Threads |-> NoCall]
    /\ rootId = None
    /\ nextId = 0
    /\ stack = <<>>
    /\ queue = <<>>
    /\ closed = FALSE
    /\ rxLock = 0
    /\ tokLock = Unlocked
    /\ wpc = [w \in Workers |-> "unspawned"]
    /\ job = [w \in Workers |-> NoJob]
    /\ created = {}
    /\ creates = [d \in Dirs |-> 0]
    /\ createPar = [d \in Dirs |-> None]
    /\ failedDirs = {}
    /\ visited = {}
    /\ meta = {}
    /\ enq = <<>>
    /\ deq = <<>>
    /\ attempts = [f \in Files |-> 0]
    /\ burned = {}
    /\ descended = {}
    /\ ioFailed = {}

\* main has returned: the process is gone, and its threads with it.
Exited == mpc \in {"done_ok", "done_err"}

Top == stack[Len(stack)]

\* upload_folder_recursive(&client, &oauth, &token, &local_root,
\* &drive_root_id, &tx): the frame of main's call.
WalkRoot(local_root, drive_root_id) ==
    [dir |-> local_root, idx |-> 1, id |-> drive_root_id, open |-> FALSE]

\* Descend with the caller's own drive_parent_id handed down.
DescendWithCallersId(path, drive_id, drive_parent_id) ==
    [dir |-> path, idx |-> 1, id |-> drive_parent_id, open |-> FALSE]

\* upload_folder_recursive(client, oauth, access_token, &path, &drive_id, tx):
\* the frame of the recursive call for directory `path`.
Descend(path, drive_id, drive_parent_id) ==
    [dir |-> path, idx |-> 1, id |-> drive_id, open |-> FALSE]

\* The stack once its top frame has returned: the caller's for loop goes on to
\* its next entry (after a return to main nothing is left).
Returned(stk) ==
    IF Len(stk) <= 1 THEN <<>>
    ELSE LET k == Len(stk) - 1
         IN  [SubSeq(stk, 1, k) EXCEPT ![k].idx = @ + 1]

\* The for loop of the top frame goes on to its next entry.
Advanced(stk) == [stk EXCEPT ![Len(stk)].idx = @ + 1]

\* A startup error that is logged instead of returned: main goes on.
ReturnErrLoggedAtStartup(e) ==
    /\ mpc' = IF stack = <<>> THEN "spawn"
              ELSE IF Len(stack) = 1 THEN "done_err" ELSE "walk"
    /\ mainErr' = IF Len(stack) = 1 THEN e ELSE mainErr
    /\ stack' = Returned(stack)
    /\ closed' = IF Len(stack) = 1 THEN TRUE ELSE closed

\* The top frame (or, with no frame, a startup step of main) returns Err(e).
\* In a nested frame the caller logs it (lines 190-194); from the outermost
\* frame main's `?` (line 87) returns it, which drops tx and ends the process.
ReturnErr(e) ==
    /\ mpc' = IF Len(stack) <= 1 THEN "done_err" ELSE "walk"
    /\ mainErr' = IF Len(stack) <= 1 THEN e ELSE mainErr
    /\ stack' = Returned(stack)
    /\ closed' = IF Len(stack) = 1 THEN TRUE ELSE closed

\* The directory the create_drive_folder call in progress is for, and the
\* parent_id it was given.
CreateTarget == IF stack = <<>> THEN Root ELSE Entries(Top.dir)[Top.idx]
CreateParent == IF stack = <<>> THEN None ELSE Top.id

\* A refresh that makes the exchange twice.
ExchangedTwice(c, ok) ==
    IF ok THEN [c EXCEPT !.st = "store", !.new = issued + 1, !.xch = @ + 2]
    ELSE NoCall

\* let new = get_token(client, oauth)?: the call of thread t after get_token
\* returned.  Ok: the endpoint has issued a new access token.  Err: the `?`
\* returns from the call.
Exchanged(c, ok) ==
    IF ok THEN [c EXCEPT !.st = "store", !.new = issued + 1, !.xch = @ + 1]
    ELSE NoCall

\* The store written with the snapshot instead of the new token.
StoredSnapshot(newTok, snapshot) == snapshot

\* A write that interleaves the new token with the old one.
StoredMixed(newTok, snapshot) == newTok + snapshot

\* *access_token.lock().unwrap() = new
Stored(newTok, snapshot) == newTok

(***************************** main: startup ******************************)

\* let local_root = dirs::document_dir().ok_or(...)?
ResolveRoot ==
    /\ mpc = "start"
    /\ \E ok \in BOOLEAN :
          /\ mpc' = IF ok THEN "get_token" ELSE "done_err"
          /\ mainErr' = IF ok THEN mainErr ELSE "Could not find Documents folder"
    /\ UNCHANGED <<token, issued, call, rootId, nextId, stack, queue,
                   closed, rxLock, tokLock, wpc, job, hist, hist2>>

\* let token = Arc::new(Mutex::new(get_token(&client, &oauth)?)), then
\* create_drive_folder(.., DRIVE_ROOT_NAME, None) locks it and takes its snapshot.
InitialToken ==
    /\ mpc = "get_token"
    /\ \E ok \in BOOLEAN :
          /\ issued' = IF ok THEN issued + 1 ELSE issued
          /\ token' = IF ok THEN issued + 1 ELSE token
          /\ mpc' = IF ok THEN "create" ELSE "done_err"
          /\ mainErr' = IF ok THEN mainErr ELSE "token error"
          /\ call' = IF ok THEN [call EXCEPT ![Main] = Cloned(issued + 1)] ELSE call
          /\ tokLock' = IF ok THEN Main ELSE tokLock
          /\ creates' = IF ok THEN [creates EXCEPT ![Root] = @ + 1] ELSE creates
    /\ UNCHANGED <<rootId, nextId, stack, queue, closed, rxLock, wpc, job,
                   created, createPar, failedDirs, visited, meta, enq, deq,
                   attempts, burned, hist2>>

(************************ main: create_drive_folder ***********************)

\* create_drive_folder returned Ok(id): main keeps it as drive_root_id, the
\* walker recurses into the subdirectory with it.
CreateOk(id) ==
    /\ mpc' = IF stack = <<>> THEN "spawn" ELSE "walk"
    /\ rootId' = IF stack = <<>> THEN id ELSE rootId
    /\ stack' = IF stack = <<>> THEN stack
                ELSE Append(stack, Descend(CreateTarget, id, Top.id))
    /\ descended' = IF stack = <<>> THEN descended ELSE descended \cup {CreateTarget}
    /\ UNCHANGED <<mainErr, closed, failedDirs>>

\* A walker that descends into the subdirectory although its folder could not
\* be created.
CreateErrDescends(e) ==
    /\ mpc' = IF stack = <<>> THEN "done_err" ELSE "walk"
    /\ mainErr' = IF stack = <<>> THEN e ELSE mainErr
    /\ stack' = IF stack = <<>> THEN stack
                ELSE Append(stack, Descend(CreateTarget, None, Top.id))
    /\ descended' = IF stack = <<>> THEN descended ELSE descended \cup {CreateTarget}
    /\ failedDirs' = IF stack = <<>> THEN failedDirs
                     ELSE failedDirs \cup {CreateTarget}
    /\ UNCHANGED <<rootId, closed>>

\* create_drive_folder returned Err(e): `?` at line 48 or at line 187.
CreateErr(e) ==
    /\ ReturnErr(e)
    /\ failedDirs' = IF stack = <<>> THEN failedDirs
                     ELSE failedDirs \cup {CreateTarget}
    /\ UNCHANGED <<rootId, descended>>

\* The guard of the snapshot is dropped and the request is sent with it.
CreateSend ==
    /\ mpc = "create" /\ call[Main].st = "cloned"
    /\ tokLock' = TokenGuardAfter(Main)
    /\ call' = [call EXCEPT ![Main] = Sending(call[Main].tk)]
    /\ UNCHANGED <<mpc, mainErr, token, issued, rootId, nextId, stack, queue,
                   closed, rxLock, wpc, job, hist, hist2>>

\* The response to the request sent with the snapshot: 401 leads to get_token;
\* a send error or error status, or a body without "id", is Err; otherwise
\* the id of the folder the endpoint created is returned.
CreateRespond ==
    /\ mpc = "create" /\ call[Main].st = "send"
    /\ \E r \in {"ok", "unauthorized", "failed", "noid"} :
          CASE r = "ok" ->
                 /\ nextId' = nextId + 1
                 /\ created' = created \cup
                       {[id |-> nextId + 1, node |-> CreateTarget, parent |-> CreateParent]}
                 /\ call' = [call EXCEPT ![Main] = NoCall]
                 /\ CreateOk(nextId + 1)
            [] r # "ok" /\ NeedsRefresh(r) ->
                 /\ call' = [call EXCEPT ![Main].st = "refresh", ![Main].resp = r]
                 /\ UNCHANGED <<mpc, mainErr, rootId, stack, closed, failedDirs,
                                nextId, created, descended>>
            [] r = "failed" /\ ~NeedsRefresh(r) ->
                 /\ call' = [call EXCEPT ![Main] = NoCall]
                 /\ CreateErr("request failed")
                 /\ UNCHANGED <<nextId, created>>
            [] r = "noid" /\ ~NeedsRefresh(r) ->
                 /\ call' = [call EXCEPT ![Main] = NoCall]
                 /\ CreateErr("Folder created but no id in response")
                 /\ UNCHANGED <<nextId, created>>
    /\ UNCHANGED <<token, issued, queue, rxLock, tokLock, wpc, job, creates,
                   createPar, visited, meta, enq, deq, attempts, burned, ioFailed>>

\* let new = get_token(client, oauth)?;
CreateRefresh ==
    /\ mpc = "create" /\ call[Main].st = "refresh"
    /\ \E ok \in BOOLEAN :
          /\ call' = [call EXCEPT ![Main] = Exchanged(call[Main], ok)]
          /\ issued' = IF ok THEN issued + 1 ELSE issued
          /\ IF ok
             THEN UNCHANGED <<mpc, mainErr, rootId, stack, closed, failedDirs,
                              descended>>
             ELSE CreateErr("token error")
    /\ UNCHANGED <<token, nextId, queue, rxLock, tokLock, wpc, job, created,
                   creates, createPar, visited, meta, enq, deq, attempts, burned,
                   ioFailed>>

\* *access_token.lock().unwrap() = new;
CreateStore ==
    /\ mpc = "create" /\ call[Main].st = "store" /\ tokLock = Unlocked
    /\ tokLock' = Main
    /\ token' = Stored(call[Main].new, call[Main].tk)
    /\ burned' = burned \cup {call[Main].tk}
    /\ call' = [call EXCEPT ![Main].st = "stored"]
    /\ UNCHANGED <<mpc, mainErr, issued, rootId, nextId, stack, queue, closed,
                   rxLock, wpc, job, created, creates, createPar, failedDirs,
                   visited, meta, enq, deq, attempts, hist2>>

\* The guard of the write is dropped;
\* return Err("token expired while creating folder".into());
CreateStoreReturn ==
    /\ mpc = "create" /\ call[Main].st = "stored"
    /\ tokLock' = TokenGuardAfter(Main)
    /\ call' = [call EXCEPT ![Main] = NoCall]
    /\ CreateErr("token expired while creating folder")
    /\ UNCHANGED <<token, issued, nextId, queue, rxLock, wpc, job, created,
                   creates, createPar, visited, meta, enq, deq, attempts, burned,
                   ioFailed>>

(****************************** main: pool ********************************)

\* for _ in 0..MAX_THREADS { thread::spawn(move || loop { ... }) }: one
\* iteration; after the last one main calls upload_folder_recursive on
\* local_root with drive_root_id.
SpawnWorker ==
    /\ mpc = "spawn"
    /\ LET w == CHOOSE v \in Workers :
                  wpc[v] = "unspawned" /\ \A u \in 1..(v - 1) : wpc[u] # "unspawned"
       IN  /\ wpc' = [wpc EXCEPT ![w] = "lock"]
           /\ mpc' = IF w = MAX_THREADS THEN "walk" ELSE mpc
           /\ stack' = IF w = MAX_THREADS THEN <<WalkRoot(Root, rootId)>> ELSE stack
    /\ UNCHANGED <<mainErr, token, issued, call, rootId, nextId, queue,
                   closed, rxLock, tokLock, job, hist, hist2>>

(********************** main: upload_folder_recursive *********************)

\* The size check with >= in place of >.
TooLargeInclusive(len) == len >= MAX_FILE_SIZE

\* if meta.len() > MAX_FILE_SIZE { ...; continue; }
TooLarge(len) == len > MAX_FILE_SIZE

\* if !local_dir.is_dir() { return Err } ; fs::read_dir(local_dir)?
WalkOpen ==
    /\ mpc = "walk" /\ ~Top.open
    /\ \E ok \in BOOLEAN :
          IF ok
          THEN /\ stack' = [stack EXCEPT ![Len(stack)].open = TRUE]
               /\ UNCHANGED <<mpc, mainErr, closed, ioFailed>>
          ELSE /\ ReturnErr("cannot read directory")
               /\ ioFailed' = ioFailed \cup {Top.dir}
    /\ UNCHANGED <<token, issued, call, rootId, nextId, queue, rxLock, tokLock,
                   wpc, job, hist, descended>>

\* The Receiver is alive while an Arc of it is: main's `rx` (line 52) until
\* main returns, a worker's clone (line 56) while its thread runs.
ReceiverAlive ==
    ~Exited \/ \E w \in Workers : wpc[w] \notin {"unspawned", "done"}

\* One iteration of the for loop whose entry is read (`entry?` is Ok).
\* A directory: create_drive_folder(.., name, Some(drive_parent_id)) locks the
\* token and takes its snapshot.
\* A file: metadata, size check, tx.send (an Err of send is logged).
WalkEntry ==
    /\ mpc = "walk" /\ Top.open /\ Top.idx <= Len(Entries(Top.dir))
    /\ LET e == Entries(Top.dir)[Top.idx] IN
       /\ visited' = visited \cup {e}
       /\ IF is_dir(e)
          THEN /\ tokLock = Unlocked
               /\ tokLock' = Main
               /\ mpc' = "create"
               /\ call' = [call EXCEPT ![Main] = Cloned(token)]
               /\ creates' = [creates EXCEPT ![e] = @ + 1]
               /\ createPar' = [createPar EXCEPT ![e] = Top.id]
               /\ UNCHANGED <<stack, queue, meta, enq>>
          ELSE /\ \E readable \in BOOLEAN, len \in Lengths :
                    IF ~readable
                    THEN UNCHANGED <<queue, meta, enq>>
                    ELSE /\ meta' = meta \cup {<<e, len>>}
                         /\ IF TooLarge(len)
                            THEN UNCHANGED <<queue, enq>>
                            ELSE IF ReceiverAlive
                            THEN /\ queue' = Append(queue, Job(e, Top.id))
                                 /\ enq' = Append(enq, Job(e, Top.id))
                            ELSE UNCHANGED <<queue, enq>>
               /\ stack' = Advanced(stack)
               /\ UNCHANGED <<mpc, call, creates, createPar, tokLock>>
    /\ UNCHANGED <<mainErr, token, issued, rootId, nextId, closed, rxLock,
                   wpc, job, created, failedDirs, deq, attempts, burned, hist2>>

\* let entry = entry?; with an Err entry
WalkEntryErr ==
    /\ mpc = "walk" /\ Top.open /\ Top.idx <= Len(Entries(Top.dir))
    /\ ReturnErr("cannot read entry")
    /\ ioFailed' = ioFailed \cup {Top.dir}
    /\ UNCHANGED <<token, issued, call, rootId, nextId, queue, rxLock, tokLock,
                   wpc, job, hist, descended>>

\* The for loop is over: Ok(()).  Back in main, step 5 is next.
WalkReturn ==
    /\ mpc = "walk" /\ Top.open /\ Top.idx > Len(Entries(Top.dir))
    /\ mpc' = IF Len(stack) = 1 THEN "drop" ELSE "walk"
    /\ stack' = Returned(stack)
    /\ UNCHANGED <<mainErr, token, issued, call, rootId, nextId, queue,
                   closed, rxLock, tokLock, wpc, job, hist, hist2>>

\* drop(tx);
DropTx ==
    /\ mpc = "drop"
    /\ closed' = TRUE
    /\ mpc' = "sleep"
    /\ UNCHANGED <<mainErr, token, issued, call, rootId, nextId, stack,
                   queue, rxLock, tokLock, wpc, job, hist, hist2>>

\* thread::sleep(Duration::from_secs(5)); Ok(())
\* The five seconds end at some point of the workers' progress.
SleepReturn ==
    /\ mpc = "sleep"
    /\ mpc' = "done_ok"
    /\ UNCHANGED <<mainErr, token, issued, call, rootId, nextId, stack,
                   queue, closed, rxLock, tokLock, wpc, job, hist, hist2>>

(******************************* workers **********************************)

\* let guard = rx.lock().unwrap();
LockRx(w) ==
    /\ ~Exited /\ wpc[w] = "lock" /\ rxLock = 0
    /\ rxLock' = w
    /\ wpc' = [wpc EXCEPT ![w] = "recv"]
    /\ UNCHANGED <<mpc, mainErr, token, issued, call, rootId, nextId,
                   stack, queue, closed, tokLock, job, hist, hist2>>

\* A guard that lives on through the loop body.
RxGuardKept(w) == w

\* The receiver mutex after `let msg = { let guard = ..; guard.recv() };`:
\* the guard is dropped at the end of the block.
RxGuardAfter(w) == 0

\* A recv that returns the job sent last.
ReceivedNewest(q) == q[Len(q)]

\* The job guard.recv() returns: the one sent first.
Received(q) == Head(q)

\* A recv that leaves the job in the channel.
DequeuedPeek(q) == q

\* The channel after recv has returned its first job.
Dequeued(q) == Tail(q)

\* A recv that never reports disconnection (a Sender kept alive somewhere).
DisconnectedNever(q, txDropped) == FALSE

\* recv returns Err: every Sender is dropped and nothing is buffered.
Disconnected(q, txDropped) == q = <<>> /\ txDropped

\* guard.recv() returns Ok(job), the guard is dropped, upload_file is called.
RecvJob(w) ==
    /\ ~Exited /\ wpc[w] = "recv" /\ queue # <<>>
    /\ job' = [job EXCEPT ![w] = Received(queue)]
    /\ deq' = Append(deq, Received(queue))
    /\ queue' = Dequeued(queue)
    /\ rxLock' = RxGuardAfter(w)
    /\ wpc' = [wpc EXCEPT ![w] = "upload"]
    /\ attempts' = [attempts EXCEPT ![Received(queue).path] = @ + 1]
    /\ UNCHANGED <<mpc, mainErr, token, issued, call, rootId, nextId, stack,
                   closed, tokLock, created, creates, createPar, failedDirs,
                   visited, meta, enq, burned, hist2>>

\* guard.recv() returns Err, the guard is dropped, the loop breaks.
RecvClosed(w) ==
    /\ ~Exited /\ wpc[w] = "recv" /\ Disconnected(queue, closed)
    /\ rxLock' = RxGuardAfter(w)
    /\ wpc' = [wpc EXCEPT ![w] = "done"]
    /\ UNCHANGED <<mpc, mainErr, token, issued, call, rootId, nextId,
                   stack, queue, closed, tokLock, job, hist, hist2>>

\* A worker that sends the failed job back.
AfterFailureRequeue(q, j) == Append(q, j)

\* The channel after upload_file returned Err for job j: the error is printed
\* and nothing is sent.
AfterFailure(q, j) == q

\* A worker that breaks out of its loop when upload_file returns Err.
UploadReturnsBreakOnErr(w, ok) ==
    /\ wpc' = [wpc EXCEPT ![w] = IF ok THEN "lock" ELSE "done"]
    /\ job' = [job EXCEPT ![w] = NoJob]
    /\ queue' = queue

\* upload_file returns (ok: Ok(()), else Err): the worker loops.
UploadReturns(w, ok) ==
    /\ wpc' = [wpc EXCEPT ![w] = "lock"]
    /\ job' = [job EXCEPT ![w] = NoJob]
    /\ queue' = IF ok THEN queue ELSE AfterFailure(queue, job[w])

\* upload_file up to the snapshot: file_name and
\* multipart::Part::file(file_path) (the file may be gone: Err), then the token
\* is locked and its snapshot taken.
UploadStart(w) ==
    /\ ~Exited /\ wpc[w] = "upload" /\ call[w].st = "idle"
    /\ \E opened \in BOOLEAN :
          IF opened
          THEN /\ tokLock = Unlocked
               /\ tokLock' = w
               /\ call' = [call EXCEPT ![w] = Cloned(token)]
               /\ UNCHANGED <<wpc, job, queue>>
          ELSE /\ UploadReturns(w, FALSE)
               /\ UNCHANGED <<call, tokLock>>
    /\ UNCHANGED <<mpc, mainErr, token, issued, rootId, nextId, stack,
                   closed, rxLock, hist, hist2>>

\* The guard of the snapshot is dropped and the multipart request is sent.
UploadSend(w) ==
    /\ ~Exited /\ wpc[w] = "upload" /\ call[w].st = "cloned"
    /\ tokLock' = TokenGuardAfter(w)
    /\ call' = [call EXCEPT ![w] = Sending(call[w].tk)]
    /\ UNCHANGED <<mpc, mainErr, token, issued, rootId, nextId, stack, queue,
                   closed, rxLock, wpc, job, hist, hist2>>

\* The status of the response to the multipart request.
UploadRespond(w) ==
    /\ ~Exited /\ wpc[w] = "upload" /\ call[w].st = "send"
    /\ \E r \in {"ok", "unauthorized", "failed"} :
          IF r # "ok" /\ NeedsRefresh(r)
          THEN /\ call' = [call EXCEPT ![w].st = "refresh", ![w].resp = r]
               /\ UNCHANGED <<wpc, job, queue>>
          ELSE /\ call' = [call EXCEPT ![w] = NoCall]
               /\ UploadReturns(w, r = "ok")
    /\ UNCHANGED <<mpc, mainErr, token, issued, rootId, nextId, stack,
                   closed, rxLock, tokLock, hist, hist2>>

\* let new = get_token(client, oauth)?;
UploadRefresh(w) ==
    /\ ~Exited /\ wpc[w] = "upload" /\ call[w].st = "refresh"
    /\ \E ok \in BOOLEAN :
          /\ call' = [call EXCEPT ![w] = Exchanged(call[w], ok)]
          /\ issued' = IF ok THEN issued + 1 ELSE issued
          /\ IF ok
             THEN UNCHANGED <<wpc, job, queue>>
             ELSE UploadReturns(w, FALSE)
    /\ UNCHANGED <<mpc, mainErr, token, rootId, nextId, stack, closed, rxLock,
                   tokLock, hist, hist2>>

\* *access_token.lock().unwrap() = new;
UploadStore(w) ==
    /\ ~Exited /\ wpc[w] = "upload" /\ call[w].st = "store" /\ tokLock = Unlocked
    /\ tokLock' = w
    /\ token' = Stored(call[w].new, call[w].tk)
    /\ burned' = burned \cup {call[w].tk}
    /\ call' = [call EXCEPT ![w].st = "stored"]
    /\ UNCHANGED <<mpc, mainErr, issued, rootId, nextId, stack, queue, closed,
                   rxLock, wpc, job, created, creates, createPar, failedDirs,
                   visited, meta, enq, deq, attempts, hist2>>

\* The guard of the write is dropped;
\* return Err("token expired while uploading file".into());
UploadStoreReturn(w) ==
    /\ ~Exited /\ wpc[w] = "upload" /\ call[w].st = "stored"
    /\ tokLock' = TokenGuardAfter(w)
    /\ call' = [call EXCEPT ![w] = NoCall]
    /\ UploadReturns(w, FALSE)
    /\ UNCHANGED <<mpc, mainErr, token, issued, rootId, nextId, stack, closed,
                   rxLock, hist, hist2>>

MainStep ==
    \/ ResolveRoot
    \/ InitialToken
    \/ CreateSend
    \/ CreateRespond
    \/ CreateRefresh
    \/ CreateStore
    \/ CreateStoreReturn
    \/ SpawnWorker
    \/ WalkOpen
    \/ WalkEntry
    \/ WalkEntryErr
    \/ WalkReturn
    \/ DropTx
    \/ SleepReturn

WorkerStep(w) ==
    \/ LockRx(w)
    \/ RecvJob(w)
    \/ RecvClosed(w)
    \/ UploadStart(w)
    \/ UploadSend(w)
    \/ UploadRespond(w)
    \/ UploadRefresh(w)
    \/ UploadStore(w)
    \/ UploadStoreReturn(w)

Next == MainStep \/ \E w \in Workers : WorkerStep(w)

Spec == Init /\ [][Next]_vars

\* The scheduler runs the pool and every request returns: while some worker
\* can take a step, some worker does.  The length of main's sleep is not
\* related to the workers' progress, so main's steps carry no fairness.
PoolStep == \E w \in Workers : WorkerStep(w)
FairSpec == Spec /\ WF_vars(PoolStep)

(***************************************************************************)
(* Properties                                                              *)
(***************************************************************************)

Range(seq) == {seq[i] : i \in 1..Len(seq)}
Count(seq, x) == Cardinality({i \in 1..Len(seq) : seq[i] = x})

\* The folder record with id `id` is the one created for directory d.
CreatedFor(id, d) == \E r \in created : r.id = id /\ r.node = d

WalkOver == mpc \in {"drop", "sleep", "done_ok", "done_err"}

\* C1: every job buffered or ever sent carries the id that a completed
\* create_drive_folder returned for the file's directory, and that folder was
\* already created in the state the send happened in; every create call for a
\* subdirectory is given the id already returned for its containing directory.
C1_ParentCreatedBeforeChild ==
    /\ [](/\ \A j \in Range(enq) \cup Range(queue) : CreatedFor(j.parent, ParentDir(j.path))
          /\ \A d \in Dirs \ {Root} :
                creates[d] > 0 => CreatedFor(createPar[d], ParentDir(d)))
    /\ [][/\ enq' # enq =>
               CreatedFor(enq'[Len(enq')].parent, ParentDir(enq'[Len(enq')].path))
          /\ \A d \in Dirs \ {Root} :
               creates'[d] > creates[d] => CreatedFor(createPar'[d], ParentDir(d))]_vars

\* C1 witness: the file inside the subdirectory has been sent and the nested
\* empty directory created.
C1_Witness ==
    /\ \E j \in Range(enq) : j.path = InnerFile
    /\ \E r \in created : r.node = EmptyDir

\* C2 (as claimed): when main has returned Ok, no job is buffered and no
\* worker is inside upload_file.
C2_ExitOnlyAfterDrain ==
    mpc = "done_ok" => queue = <<>> /\ \A w \in Workers : wpc[w] # "upload"

\* C3 (as claimed): when the walk is over, every entry listed after a
\* subdirectory whose creation failed has been reached by the for loop.
C3_SiblingsStillProcessed ==
    WalkOver => \A d \in failedDirs : LaterSiblings(d) \subseteq visited

\* C4 (as claimed): main returns Err only when startup failed, that is, when
\* no root folder id was obtained (or local_root turned out to be no readable
\* directory, the one error of the walker that the design calls fatal).
C4_NoAbortAfterStartup ==
    mpc = "done_err" => rootId = None \/ mainErr = "cannot read directory"

\* C5: no job is returned by two recv calls, and the jobs received are a
\* sub-multiset of the jobs sent.
C5_DeliveredAtMostOnce ==
    /\ \A i, k \in 1..Len(deq) : i # k => deq[i] # deq[k]
    /\ \A j \in Range(deq) : Count(deq, j) <= Count(enq, j)

\* C5 witness: two workers are inside upload_file at once, each with its own job.
C5_Witness ==
    /\ Len(deq) >= 2
    /\ \E v, w \in Workers : v # w /\ wpc[v] = "upload" /\ wpc[w] = "upload"

C7_OneRefreshThenNewToken ==
    /\ [](/\ \A t \in Threads :
                /\ call[t].st \in {"store", "stored"} => call[t].xch = 1
                /\ call[t].st \in {"cloned", "send", "refresh"} => call[t].xch = 0
          /\ token \notin burned)
    /\ [][/\ token' # token =>
               \/ mpc = "get_token"
               \/ \E t \in Threads :
                     /\ call[t].st = "store" /\ call[t].xch = 1
                     /\ token' = call[t].new /\ token' # call[t].tk
          /\ \A t \in Threads :
               (call'[t].st = "cloned" /\ call[t].st # "cloned") =>
                   call'[t].tk = token' /\ call'[t].tk \notin burned']_vars

\* C7 witness: after a stored refresh a call is in flight with a token other
\* than the initial one.
C7_Witness ==
    /\ burned # {}
    /\ \E t \in Threads : call[t].st = "send" /\ call[t].tk > 1

\* C8: no file gets a second upload_file call, no directory a second
\* create_drive_folder call, a received job is never buffered again, and a
\* directory whose create call failed has no folder id; a call that got 401
\* and refreshed returns Err: the walker gets no id and records the failure
\* (or main returns Err), the worker sends nothing and goes back to recv.
C8_AtMostOneAttempt ==
    /\ [](/\ \A f \in Files : attempts[f] <= 1
          /\ \A d \in Dirs : creates[d] <= 1
          /\ Range(queue) \cap Range(deq) = {}
          /\ \A d \in failedDirs : ~\E r \in created : r.node = d)
    /\ [][/\ (call[Main].st = "stored" /\ call'[Main].st = "idle") =>
                /\ created' = created
                /\ mpc' = "done_err" \/ CreateTarget \in failedDirs'
          /\ \A w \in Workers :
                (call[w].st = "stored" /\ call'[w].st = "idle") =>
                    queue' = queue /\ wpc'[w] = "lock" /\ attempts' = attempts]_vars

\* C8 witness: an upload got 401 and its refresh succeeded (it is about to
\* store and return Err), after a folder creation had failed as well.
C8_Witness ==
    /\ failedDirs # {}
    /\ \E w \in Workers : call[w].st = "store" /\ attempts[job[w].path] = 1

\* C9 (as claimed): after startup, a failed get_token inside a call does not
\* end the process.
C9_RefreshFailureIsLocal ==
    (mpc = "done_err" /\ rootId # None) => mainErr # "token error"

\* C10: a file whose metadata was read has been sent exactly when its length is
\* at most MAX_FILE_SIZE, and only such files are ever sent.
C10_SizeLimit ==
    /\ \A m \in meta : (\E j \in Range(enq) : j.path = m[1]) <=> m[2] <= MAX_FILE_SIZE
    /\ \A j \in Range(enq) : \E m \in meta : m[1] = j.path /\ m[2] <= MAX_FILE_SIZE

\* C10 witness: a file of exactly MAX_FILE_SIZE bytes was sent and one of
\* MAX_FILE_SIZE + 1 bytes was skipped.
C10_Witness ==
    /\ \E m \in meta : m[2] = MAX_FILE_SIZE /\ \E j \in Range(enq) : j.path = m[1]
    /\ \E m \in meta : m[2] = MAX_FILE_SIZE + 1 /\ ~\E j \in Range(enq) : j.path = m[1]

(****************************** further properties ************************)

\* A step of upload_file in worker w.
UploadStep(w) ==
    \/ UploadStart(w) \/ UploadSend(w) \/ UploadRespond(w)
    \/ UploadRefresh(w) \/ UploadStore(w) \/ UploadStoreReturn(w)

\* Node n lies in the subtree of directory a.
RECURSIVE Below(_, _)
Below(n, a) == n # Root /\ (ParentDir(n) = a \/ Below(ParentDir(n), a))

\* The sum of f over the set S.
RECURSIVE SumOver(_, _)
SumOver(f, S) ==
    IF S = {} THEN 0
    ELSE LET x == CHOOSE y \in S : TRUE IN f[x] + SumOver(f, S \ {x})

\* File f may be at or below the limit: its size was read as such, or the
\* walk never read it; a file whose metadata could not be read is left out.
MayBeEligible(f) ==
    \/ f \notin visited
    \/ \E len \in Lengths : <<f, len>> \in meta /\ ~TooLarge(len)

\* C11 (as claimed): when the walk is over, every file that may be at or below
\* the limit and lies in a directory whose folder was created (and whose
\* listing could be read) has exactly one job, carrying the id returned for
\* that directory.
C11_OneJobPerEligibleFile ==
    WalkOver =>
        \A f \in Files :
            ( /\ MayBeEligible(f)
              /\ ParentDir(f) \notin ioFailed
              /\ \E r \in created : r.node = ParentDir(f) ) =>
            /\ Cardinality({i \in 1..Len(enq) : enq[i].path = f}) = 1
            /\ \A i \in 1..Len(enq) :
                  enq[i].path = f => CreatedFor(enq[i].parent, ParentDir(f))

\* C12: the folders created under the root are those of the subdirectories the
\* walker made its recursive call for, one each; no job carries the id of the
\* empty subdirectory; nothing inside the subtree of a directory whose
\* creation failed is created, descended into or enqueued.
C12_FoldersMatchDescents ==
    /\ {r.node : r \in created} \ {Root} = descended
    /\ Cardinality({r \in created : r.node # Root}) = Cardinality(descended)
    /\ \A j \in Range(enq) : ~CreatedFor(j.parent, EmptyDir)
    /\ \A a \in failedDirs :
          /\ \A d \in Dirs : Below(d, a) => creates[d] = 0 /\ d \notin descended
          /\ \A j \in Range(enq) : ~Below(j.path, a)
          /\ \A r \in created : r.node # a /\ ~Below(r.node, a)

\* C12 witness: the walk is over, the empty subdirectory has its folder and
\* was descended into, and the file next to it has its job.
C12_Witness ==
    /\ WalkOver
    /\ descended = {SubDir, EmptyDir}
    /\ \E r \in created : r.node = EmptyDir
    /\ \E j \in Range(enq) : j.path = InnerFile

\* C13: the token mutex is held only by a call that is cloning or replacing
\* the token: no thread holds it while its request or its token exchange is in
\* flight, and whenever no call is cloning or replacing, the mutex is free.
C13_TokenLockNeverAcrossIO ==
    /\ tokLock \in {Unlocked} \cup Threads
    /\ \A t \in Threads :
          /\ call[t].st \in {"send", "refresh", "store", "idle"} => tokLock # t
          /\ call[t].st \in {"cloned", "stored"} => tokLock = t

\* C13 witness: one thread reads the token under the lock while another
\* thread's token exchange is in flight.
C13_Witness ==
    \E t, u \in Threads :
        t # u /\ call[t].st = "refresh" /\ call[u].st = "cloned" /\ tokLock = u

\* C14: a call keeps the snapshot it took, whatever happens to the store, and
\* the snapshot is the value the store held when it was taken; the store is
\* written only by the step that follows a successful exchange made after a
\* 401 (the one other assignment is its construction from the first token).
C14_SnapshotKeptStoreWrittenByRefresh ==
    [][/\ \A t \in Threads :
            /\ (call[t].st # "idle" /\ call'[t].st # "idle") => call'[t].tk = call[t].tk
            /\ (call[t].st # "cloned" /\ call'[t].st = "cloned") => call'[t].tk = token'
       /\ token' # token =>
            \/ mpc = "get_token" /\ token = 0
            \/ \E t \in Threads :
                  /\ call[t].st = "store" /\ call'[t].st = "stored"
                  /\ call[t].resp = "unauthorized" /\ call[t].xch = 1
                  /\ token' = call[t].new]_vars

\* C14 witness: a request is in flight with a snapshot that is no longer the
\* value of the store.
C14_Witness ==
    \E t \in Threads : call[t].st = "send" /\ call[t].tk # token

\* C15: once built the store holds one of the tokens issued so far; a failed
\* exchange leaves it as it was; a write sets it to the writer's new token.
C15_StoreHoldsAnIssuedToken ==
    /\ [](IF issued = 0 THEN token = 0 ELSE token \in 1..issued)
    /\ [][\A t \in Threads :
            /\ (call[t].st = "refresh" /\ call'[t].st = "idle") =>
                   token' = token /\ issued' = issued
            /\ (call[t].st = "store" /\ call'[t].st = "stored") =>
                   token' = call[t].new /\ token' \in 2..issued]_vars

\* C15 witness: two refreshes have been written and the store holds the one
\* written last, which is not the one issued last.
C15_Witness ==
    /\ issued >= 3 /\ token > 1 /\ token < issued
    /\ \A t \in Threads : call[t].st \notin {"refresh", "store"}

\* C16: a call makes at most one exchange, and only after its own request got
\* 401; every exchange but the first is such a step of one caller and issues
\* that caller its own token; the tokens issued by refreshes are no more than
\* the authenticated calls made.
C16_RefreshReactiveAndBounded ==
    /\ [](/\ \A t \in Threads :
                /\ call[t].xch <= 1
                /\ call[t].st \in {"refresh", "store", "stored"} =>
                       call[t].resp = "unauthorized"
                /\ call[t].xch = 1 => call[t].st \in {"store", "stored"}
          /\ issued <= 1 + SumOver(creates, Dirs) + SumOver(attempts, Files))
    /\ [][/\ issued' # issued =>
               \/ mpc = "get_token" /\ issued = 0
               \/ \E t \in Threads :
                     /\ call[t].st = "refresh" /\ call[t].resp = "unauthorized"
                     /\ call[t].xch = 0 /\ call'[t].xch = 1
                     /\ call'[t].new = issued' /\ issued' = issued + 1
                     /\ \A u \in Threads \ {t} : call'[u] = call[u]
          /\ \A t \in Threads :
               /\ (call[t].st # "refresh" /\ call'[t].st = "refresh") =>
                      call[t].st = "send"
               /\ (call[t].st = "refresh" /\ call'[t].st # "refresh") =>
                      issued' = issued + 1 \/ call'[t].st = "idle"]_vars

\* C16 witness: two callers got 401 at the same time and each has made its own
\* exchange.
C16_Witness ==
    \E t, u \in Threads :
        /\ t # u /\ call[t].st = "store" /\ call[u].st = "store"
        /\ call[t].new # call[u].new

\* C17: a step of upload_file in one worker leaves the channel, the receiver
\* lock, main and every other worker as they were; the worker stays in its
\* upload or goes back to lock the receiver; the token changes only in the
\* write that follows a 401 and a successful exchange.
C17_FailedUploadIsLocal ==
    [][\A w \in Workers :
          (wpc[w] = "upload" /\ (call'[w] # call[w] \/ wpc'[w] # wpc[w])) =>
             /\ queue' = queue /\ closed' = closed /\ rxLock' = rxLock
             /\ enq' = enq /\ deq' = deq
             /\ \A v \in Workers \ {w} :
                   job'[v] = job[v] /\ wpc'[v] = wpc[v] /\ call'[v] = call[v]
             /\ call'[Main] = call[Main] /\ mpc' = mpc /\ stack' = stack
             /\ wpc'[w] \in {"upload", "lock"}
             /\ token' # token =>
                   call[w].st = "store" /\ call[w].resp = "unauthorized"]_vars

\* C17 witness: an upload got 401, refreshed, wrote the store and returned
\* Err (no folder creation failed, so the write was a worker's); one worker is
\* back in recv while another's request is in flight.
C17_Witness ==
    /\ ~Exited /\ rootId # None /\ failedDirs = {} /\ burned # {}
    /\ \A t \in Threads : call[t].st # "stored"
    /\ \E w, v \in Workers :
          w # v /\ wpc[w] = "upload" /\ call[w].st = "send" /\ wpc[v] = "recv"

\* C18: the jobs received followed by the jobs buffered are the jobs sent, in
\* the order sent; the channel is closed by main only once no frame of the
\* walk is left, stays closed, and takes no job afterwards; a file that
\* passes the size check is always buffered.
C18_FifoClosedOnceAfterWalk ==
    /\ [](/\ enq = deq \o queue
          /\ closed => stack = <<>> /\ mpc \in {"sleep", "done_ok", "done_err"})
    /\ [][/\ closed => closed' /\ enq' = enq
          /\ (~closed /\ closed') =>
                /\ mpc \in {"drop", "walk", "create"} /\ stack' = <<>>
                /\ wpc' = wpc /\ job' = job
          /\ \A f \in Files, len \in Lengths :
                (<<f, len>> \in meta' \ meta /\ ~TooLarge(len)) =>
                    /\ ~closed /\ ReceiverAlive
                    /\ enq' = Append(enq, Job(f, Top.id))
                    /\ queue' = Append(queue, Job(f, Top.id))]_vars

\* C18 witness: the channel is closed after a walk that returned Ok, one job
\* has been received and a later one is still buffered.
C18_Witness ==
    /\ closed /\ mpc = "sleep" /\ Len(enq) >= 2
    /\ Len(deq) >= 1 /\ Len(queue) >= 1

\* C19: without a root folder id there is no worker, no frame of the walk, no
\* folder, no create call for a subdirectory and no job; a startup step that
\* fails makes main return Err; a worker exists only once the root id does,
\* and a job only once every worker has been spawned.
C19_StartupFailuresFatal ==
    /\ [](/\ rootId = None =>
                /\ \A w \in Workers : wpc[w] = "unspawned"
                /\ stack = <<>> /\ created = {} /\ enq = <<>>
                /\ \A d \in Dirs \ {Root} : creates[d] = 0
                /\ mpc \in {"start", "get_token", "create", "done_err"}
          /\ \A w \in Workers : wpc[w] # "unspawned" => rootId # None
          /\ enq # <<>> => \A w \in Workers : wpc[w] # "unspawned")
    /\ [][(rootId = None /\ mpc \in {"get_token", "create"} /\ mpc' # mpc) =>
              \/ mpc' = "done_err" /\ rootId' = None /\ mainErr' # ""
              \/ mpc' = "create" /\ issued' = 1
              \/ mpc' = "spawn" /\ rootId' # None /\ call[Main].st = "send"]_vars

\* C19 witness: the request for the root folder got 401, the refresh
\* succeeded and was stored, and main has returned Err.
C19_Witness ==
    /\ mpc = "done_err" /\ rootId = None /\ burned # {}
    /\ mainErr = "token expired while creating folder"

\* C20: a worker holds the receiver lock exactly while it is in recv, so at
\* most one worker is; a worker inside upload_file can take its next step
\* while another is blocked in recv on the empty open channel (unless a third
\* thread is just then cloning or replacing the token); the workers inside
\* upload_file are at most the pool.
C20_ReceiverLockOnlyInRecv ==
    /\ \A w \in Workers : rxLock = w <=> wpc[w] = "recv"
    /\ Cardinality({w \in Workers : wpc[w] = "recv"}) <= 1
    /\ Cardinality({w \in Workers : wpc[w] = "upload"}) <= MAX_THREADS
    /\ \A w, v \in Workers :
          ( /\ wpc[v] = "recv" /\ queue = <<>> /\ ~closed
            /\ wpc[w] = "upload" /\ ~Exited /\ tokLock \in {Unlocked, w} ) =>
          ENABLED UploadStep(w)

\* C20 witness: every worker of the pool has its request in flight at once.
C20_Witness ==
    \A w \in Workers : wpc[w] = "upload" /\ call[w].st = "send"

====
